---- MODULE Spec2Model ----
(***************************************************************************)
(* Custom stream protocols of libmpv2 (src/src/mpv/protocol.rs): the       *)
(* callback table built by Protocol::new, Protocol::register, and the five *)
(* trampolines open_wrapper, read_wrapper, seek_wrapper, size_wrapper and  *)
(* close_wrapper that the engine calls through the C ABI.                  *)
(*                                                                         *)
(* The application's callbacks are nondeterministic: each invocation       *)
(* either returns a value or panics, and may change the value it holds a   *)
(* mutable reference to.  The engine is the environment: it registers      *)
(* schemes, opens locators of registered schemes and then drives each      *)
(* stream it was told is open, closing it once.                            *)
(*                                                                         *)
(* Spec follows one Protocol from Protocol::new to its drop and the whole  *)
(* life of its streams.  SpecReg has several Protocols, of any name,       *)
(* compete for one scheme, with the open dispatches that follow.           *)
(* SpecBridge applies the status bridge mpv_err to a range of statuses.    *)
(* SpecInit makes engine contexts with Mpv::with_initializer (src/src/     *)
(* mpv.rs) and drops the Mpv values it returns.                            *)
(***************************************************************************)
EXTENDS Integers, Sequences, FiniteSets, TLC

\* ------------------------------------------------------------ bounds
NumProtos == 2
MaxMade == 1
MaxInst == 2
MaxCalls == 1
MaxCtx == 3

Protos == 1..NumProtos
\* The Protocols made where the whole life of the streams is followed.
MainProtos == 1..MaxMade
Insts == 1..MaxInst
Handles == 1..MaxCtx

\* The per-instance state T and the context U are opaque to the bridge: two
\* values each are enough to see a value change or be mixed up.  A context
\* starts as InitialContext and open_fn may leave any value of UVals in it.
TVals == {0, 1}
UVals == {0, 1}
InitialContext == {0}

\* ------------------------------------------------- engine status codes
\* mpv_error::Generic and mpv_error::Unsupported (libmpv's client.h values).
Generic == -20
Unsupported == -18
\* What the engine answers when the scheme is taken (spec: DuplicateScheme).
DuplicateScheme == -4

\* Values a read/seek/size callback may return: a negative status, end of
\* stream (or position 0) and a positive count or position.
RetVals == {Generic, 0, 1}

\* ------------------------------------------------------------- strings
\* Strings are sequences of bytes.  97 = 'a', 98 = 'b', 58 = ':', 47 = '/',
\* 120 = 'x', 121 = 'y', 0 = NUL, 255 = a byte no UTF-8 text contains.  The
\* names are a valid scheme and one with an interior NUL; the paths make two
\* locators that are UTF-8 and one that is not.
NameSet == { <<97>>, <<97, 0, 98>> }
SchemeNames == { <<97>> }
PathSet == { <<120>>, <<121>>, <<255>> }
SchemeSep == <<58, 47, 47>>

\* CString::new: an interior NUL is an error, otherwise the bytes are kept
\* and a terminating NUL is appended.
CStringNewTruncating(s) ==
    LET nuls == { k \in 1..Len(s) : s[k] = 0 }
        cut  == IF nuls = {} THEN Len(s)
                ELSE (CHOOSE k \in nuls : \A m \in nuls : k <= m) - 1
    IN  [ok |-> TRUE, bytes |-> SubSeq(s, 1, cut) \o <<0>>]

CStringNew(s) ==
    IF \E k \in 1..Len(s) : s[k] = 0
    THEN [ok |-> FALSE, bytes |-> <<>>]
    ELSE [ok |-> TRUE, bytes |-> s \o <<0>>]

\* What a C reader sees behind a char pointer: the bytes before the first NUL.
RECURSIVE CStrBytes(_)
CStrBytes(b) ==
    IF b = <<>> \/ Head(b) = 0 THEN <<>> ELSE <<Head(b)>> \o CStrBytes(Tail(b))

\* CStr::to_str on the bytes used here: single-byte code points are below 128;
\* the alphabet holds no continuation bytes, so a byte >= 128 is never valid.
IsUtf8(s) == \A k \in 1..Len(s) : s[k] < 128

\* ------------------------------------------------------------ results
\* mpv_err: status 0 is Ok(ret), any other status is Err(Error::Raw(status)).
mpv_err_always_ok(ret, err) == [err |-> "", val |-> ret]

mpv_err_negative_only(ret, err) ==
    IF err >= 0 THEN [err |-> "", val |-> ret] ELSE [err |-> "Raw", val |-> err]

mpv_err(ret, err) ==
    IF err = 0 THEN [err |-> "", val |-> ret] ELSE [err |-> "Raw", val |-> err]

\* Error::from(NulError), taken by the ? in register.
FromNulError == [err |-> "InvalidName", val |-> 0]

\* ------------------------------------------------ callbacks and barrier
Ret(v) == [kind |-> "ret", val |-> v]
Panic == [kind |-> "panic", val |-> 0]

\* panic::catch_unwind: a panic of the closure stops here and becomes Err.
catch_unwind_none(o) ==
    [ok |-> o.kind = "ret", val |-> o.val, unwinding |-> o.kind = "panic"]

catch_unwind(o) ==
    [ok |-> o.kind = "ret", val |-> o.val, unwinding |-> FALSE]

\* ---------------------------------------------------- trampoline results
\* open_wrapper's status: 0 when the closure returned, Generic when it panicked.
open_ret_always_ok(r) == 0

open_ret(r) == IF r.ok THEN 0 ELSE Generic

\* read_wrapper: the callback's value, or -1 when it panicked.
read_ret_zero_on_panic(r) == IF r.ok THEN r.val ELSE 0

read_ret_clamped(r) == IF r.ok /\ r.val >= 0 THEN r.val ELSE -1

read_ret(r) == IF r.ok THEN r.val ELSE -1

\* seek_wrapper: the callback's value, or Generic when it panicked.
seek_ret(r) == IF r.ok THEN r.val ELSE Generic

\* size_wrapper: the callback's value, or Unsupported when it panicked.
size_ret_generic_on_panic(r) == IF r.ok THEN r.val ELSE Generic

size_ret(r) == IF r.ok THEN r.val ELSE Unsupported

\* seek_wrapper and size_wrapper when the Option is None.
seek_none_ret_generic == Generic

seek_none_ret == Unsupported

size_none_ret == Unsupported

\* ------------------------------------------------------------- memory
\* A heap allocation: alloc is "none" (never allocated), "live" or "freed".
NoBlock == [alloc |-> "none", init |-> FALSE, val |-> 0, frees |-> 0]

\* alloc::alloc(c_layout): a fresh block for instance i, not yet initialized.
\* Blocks are named by the instance whose open dispatch allocated them.
new_cookie_shared(i) == 1

new_cookie(i) == i

\* ptr::write(cookie, value): the block now holds the value.
ptr_write_skipped(b, v) == b

ptr_write(b, v) == [b EXCEPT !.init = TRUE, !.val = v]

\* Dropping a Box: the allocation is returned to the allocator.
drop_box_leak(b) == b

drop_box(b) == [b EXCEPT !.alloc = "freed", !.frees = @ + 1]

NoTable ==
    [alloc |-> "none", frees |-> 0, name |-> <<>>, user_data |-> 0,
     open_fn |-> 0, close_fn |-> 0, read_fn |-> 0, seek_fn |-> 0, size_fn |-> 0]

NoRecord ==
    [alloc |-> "none", frees |-> 0, cookie |-> 0,
     open_fn |-> 0, close_fn |-> 0, read_fn |-> 0, seek_fn |-> 0, size_fn |-> 0]

NoInfo ==
    [cookie |-> 0, read_fn |-> FALSE, seek_fn |-> FALSE, size_fn |-> FALSE,
     close_fn |-> FALSE]

NoCall == [user_data |-> 0, uri |-> <<>>]

NoGiven == [made |-> FALSE, seek |-> FALSE, size |-> FALSE]

\* ---------------------------------------------------------------- state
VARIABLES
    table,      \* Protos -> InitProtocolData: the callback table and the context
    schemes,    \* the engine's registered schemes: {[protocol, user_data]}
    rec,        \* Insts -> ProtocolData: the per-instance dispatch record
    block,      \* Insts -> the state block of type T
    info,       \* Insts -> the engine's mpv_stream_cb_info for the stream
    call,       \* Insts -> the arguments the instance's open dispatch was given
    eng,        \* Insts -> the engine's view of the stream
    st,         \* Insts -> the instance's lifecycle state
    openfn,     \* Insts -> how open_fn ended for the instance
    tval,       \* Insts -> the state value as the application last left it
    seekCalls,  \* Protos -> invocations of the registration's seek_fn
    sizeCalls,  \* Protos -> invocations of the registration's size_fn
    closeCalls, \* Insts -> invocations of close_fn for the instance
    closeArg,   \* Insts -> the value close_fn was given
    given,      \* Protos -> the optional callbacks Protocol::new was given
    openCalls,  \* Insts -> invocations of open_fn for the instance
    escaped,    \* a panic unwound out of a trampoline into the engine
    crashed,    \* the process ended on an access to released memory
    ub,         \* kinds of undefined behaviour that happened
    mpv,        \* Handles -> the engine context mpv_create returned
    last        \* the last call that returned: what it was and what it returned

vars ==
    <<table, schemes, rec, block, info, call, eng, st, openfn, tval, seekCalls,
      sizeCalls, closeCalls, closeArg, given, openCalls, escaped, crashed, ub,
      mpv, last>>

\* cbval is the value the callback itself returned (for register: the status
\* the engine returned); ctx and uri are the arguments open_fn was called with.
Returned(op, id, cb, val, err) ==
    [op |-> op, id |-> id, cb |-> cb, val |-> val, err |-> err,
     cbval |-> 0, ctx |-> 0, uri |-> <<>>]

Init ==
    /\ table = [p \in Protos |-> NoTable]
    /\ schemes = {}
    /\ rec = [i \in Insts |-> NoRecord]
    /\ block = [i \in Insts |-> NoBlock]
    /\ info = [i \in Insts |-> NoInfo]
    /\ call = [i \in Insts |-> NoCall]
    /\ eng = [i \in Insts |-> "none"]
    /\ st = [i \in Insts |-> "none"]
    /\ openfn = [i \in Insts |-> "none"]
    /\ tval = [i \in Insts |-> 0]
    /\ seekCalls = [p \in Protos |-> 0]
    /\ sizeCalls = [p \in Protos |-> 0]
    /\ closeCalls = [i \in Insts |-> 0]
    /\ closeArg = [i \in Insts |-> 0]
    /\ given = [p \in Protos |-> NoGiven]
    /\ openCalls = [i \in Insts |-> 0]
    /\ escaped = FALSE
    /\ crashed = FALSE
    /\ ub = {}
    /\ mpv = [h \in Handles |-> "none"]
    /\ last = Returned("none", 0, "", 0, "")

\* --------------------------------------------------------- Protocol::new
\* Box::into_raw(Box::new(InitProtocolData {..})): the callback table.  A
\* function reference is named by the registration it was given to; 0 is None.
New(p, name, u, seek, size) ==
    /\ ~crashed
    /\ table[p].alloc = "none"
    /\ \A q \in Protos : q < p => table[q].alloc # "none"
    /\ table' = [table EXCEPT ![p] =
                   [alloc |-> "live", frees |-> 0, name |-> name, user_data |-> u,
                    open_fn |-> p, close_fn |-> p, read_fn |-> p,
                    seek_fn |-> IF seek THEN p ELSE 0,
                    size_fn |-> IF size THEN p ELSE 0]]
    /\ given' = [given EXCEPT ![p] = [made |-> TRUE, seek |-> seek, size |-> size]]
    /\ last' = Returned("new", p, "", 0, "")
    /\ UNCHANGED <<mpv, schemes, rec, block, info, call, eng, st, openfn, tval,
                   seekCalls, sizeCalls, closeCalls, closeArg, openCalls, escaped,
                   crashed, ub>>

\* ------------------------------------------------------ Drop for Protocol
\* The Box of the callback table is rebuilt from the raw pointer and dropped,
\* and the Protocol's name String goes with the Protocol.  Nothing is said to
\* the engine: the scheme stays registered.
Drop(p) ==
    /\ ~crashed
    /\ table[p].alloc = "live"
    /\ table' = [table EXCEPT ![p] = [drop_box(table[p]) EXCEPT !.name = <<>>]]
    /\ last' = Returned("drop", p, "", 0, "")
    /\ UNCHANGED <<mpv, schemes, rec, block, info, call, eng, st, openfn, tval,
                   seekCalls, sizeCalls, closeCalls, closeArg, given, openCalls,
                   escaped, crashed, ub>>

\* A dereference of the callback table.  Of a live table it reads the table.
\* Of a released one it is undefined: the process either finds the old bytes
\* still in place or is ended by the access.
Deref(t) == IF t.alloc = "live" THEN {"live"} ELSE {"stale", "abort"}

\* ---------------------------------------------------- the engine's side
\* mpv_stream_cb_add_ro: the engine reads the scheme as a C string, refuses a
\* scheme it already has and otherwise stores (scheme, user_data) for it.
mpv_stream_cb_add_ro(regs, cname, user_data) ==
    LET scheme == CStrBytes(cname) IN
    IF \E r \in regs : r.protocol = scheme
    THEN [status |-> DuplicateScheme, schemes |-> regs]
    ELSE [status |-> 0,
          schemes |-> regs \cup {[protocol |-> scheme, user_data |-> user_data]}]

\* The engine calls read, seek, size and close only on a stream whose open
\* dispatch returned success and that it has not closed.
EngineMayDispatch(i) == eng[i] = "open"

\* The engine calls an entry point only if the stream's info record holds it.
EngineMayCall(i, entry) == EngineMayDispatch(i) /\ info[i][entry]

\* ---------------------------------------------------- Protocol::register
register(p) ==
    LET name == CStringNew(table[p].name) IN
    IF ~name.ok
    THEN [result |-> FromNulError, schemes |-> schemes, status |-> 0]
    ELSE LET r == mpv_stream_cb_add_ro(schemes, name.bytes, p) IN
         [result |-> mpv_err(0, r.status), schemes |-> r.schemes,
          status |-> r.status]

Register(p) ==
    /\ ~crashed
    /\ table[p].alloc = "live"
    /\ LET r == register(p) IN
       /\ schemes' = r.schemes
       /\ last' = [Returned("register", p, "", r.result.val, r.result.err)
                     EXCEPT !.cbval = r.status]
    /\ UNCHANGED <<mpv, table, rec, block, info, call, eng, st, openfn, tval,
                   seekCalls, sizeCalls, closeCalls, closeArg, given, openCalls,
                   escaped, crashed, ub>>

\* ------------------------------------------------------------ open_wrapper
\* The dispatch record: the table's function references copied beside the
\* cookie of the new state block.
protocol_data_copy_swapped(t, c) ==
    [alloc |-> "live", frees |-> 0, cookie |-> c,
     open_fn |-> t.open_fn, close_fn |-> t.close_fn, read_fn |-> t.read_fn,
     seek_fn |-> t.size_fn, size_fn |-> t.seek_fn]

protocol_data_copy(t, c) ==
    [alloc |-> "live", frees |-> 0, cookie |-> c,
     open_fn |-> t.open_fn, close_fn |-> t.close_fn, read_fn |-> t.read_fn,
     seek_fn |-> t.seek_fn, size_fn |-> t.size_fn]

\* Box::into_raw(Box::new(..)) of the dispatch record: a fresh allocation,
\* named by the instance whose open dispatch made it.
into_raw_shared(i) == 1

into_raw(i) == i

\* The info record handed back to the engine: the record as the cookie and
\* the four wrappers, whatever the table holds.
stream_cb_info_no_size(d) ==
    [cookie |-> d, read_fn |-> TRUE, seek_fn |-> TRUE, size_fn |-> FALSE,
     close_fn |-> TRUE]

stream_cb_info(d) ==
    [cookie |-> d, read_fn |-> TRUE, seek_fn |-> TRUE, size_fn |-> TRUE,
     close_fn |-> TRUE]

\* mpv_cstr_to_str!: the bytes up to the NUL, if they are UTF-8.
RECURSIVE AfterSep(_)
AfterSep(s) ==
    IF Len(s) < Len(SchemeSep) THEN s
    ELSE IF SubSeq(s, 1, Len(SchemeSep)) = SchemeSep
         THEN SubSeq(s, Len(SchemeSep) + 1, Len(s))
         ELSE AfterSep(Tail(s))

mpv_cstr_to_str_lossy(b) == [ok |-> TRUE, str |-> CStrBytes(b)]

mpv_cstr_to_str_path(b) ==
    [ok |-> IsUtf8(CStrBytes(b)), str |-> AfterSep(CStrBytes(b))]

mpv_cstr_to_str(b) ==
    [ok |-> IsUtf8(CStrBytes(b)), str |-> CStrBytes(b)]

\* Up to the call of open_fn: the state block and the dispatch record are
\* allocated, the table's function references are copied into the record and
\* the engine's info record is filled in.  how is what the dereference of
\* user_data does.
OpenBegin(i, reg, path, how) ==
    /\ ~crashed
    /\ eng[i] = "none"
    /\ \A j \in Insts : j < i => eng[j] # "none"
    /\ reg \in schemes
    /\ how \in Deref(table[reg.user_data])
    /\ ub' = IF how = "live" THEN ub ELSE ub \cup {"table_after_free"}
    /\ IF how = "abort"
       THEN /\ crashed' = TRUE
            /\ last' = Returned("abort", i, "", 0, "")
            /\ UNCHANGED <<eng, st, call, block, rec, info>>
       ELSE LET p == reg.user_data
                c == new_cookie(i)
                d == into_raw(i)
            IN
            /\ eng' = [eng EXCEPT ![i] = "opening"]
            /\ st' = [st EXCEPT ![i] = "opening"]
            /\ call' = [call EXCEPT ![i] =
                          [user_data |-> p,
                           uri |-> reg.protocol \o SchemeSep \o path \o <<0>>]]
            /\ block' = [block EXCEPT ![c] =
                           [alloc |-> "live", init |-> FALSE, val |-> 0,
                            frees |-> @.frees]]
            /\ rec' = [rec EXCEPT ![d] = protocol_data_copy(table[p], c)]
            /\ info' = [info EXCEPT ![i] = stream_cb_info(d)]
            /\ last' = Returned("open_enter", i, "", 0, "")
            /\ UNCHANGED crashed
    /\ UNCHANGED <<mpv, table, schemes, openfn, tval, seekCalls, sizeCalls, closeCalls,
                   closeArg, given, openCalls, escaped>>

\* The closure under catch_unwind and the return: the locator is converted
\* (a panic of unwrap when it is not UTF-8), open_fn runs with the context and
\* its value is written to the state block.  o is how open_fn ends, u2 the
\* context as it leaves it and how what the dereference of user_data does.
OpenEnd(i, o, u2, how) ==
    /\ ~crashed
    /\ st[i] = "opening"
    /\ LET p == call[i].user_data
           uri == mpv_cstr_to_str(call[i].uri)
           valid == uri.ok
           outcome == IF valid THEN o ELSE Panic
           r == catch_unwind(outcome)
           d == info[i].cookie
           c == rec[d].cookie
           status == open_ret(r)
       IN
       /\ how \in (IF valid THEN Deref(table[p]) ELSE {"live"})
       /\ ub' = IF how = "live" THEN ub ELSE ub \cup {"table_after_free"}
       /\ IF how = "abort"
          THEN /\ crashed' = TRUE
               /\ last' = Returned("abort", i, "", 0, "")
               /\ UNCHANGED <<table, block, tval, openfn, openCalls, st, escaped,
                              eng, call>>
          ELSE /\ table' = IF valid THEN [table EXCEPT ![p].user_data = u2]
                           ELSE table
               /\ block' = IF r.ok
                           THEN [block EXCEPT ![c] = ptr_write(block[c], r.val)]
                           ELSE block
               /\ tval' = IF outcome.kind = "ret"
                          THEN [tval EXCEPT ![i] = outcome.val] ELSE tval
               /\ openfn' = [openfn EXCEPT ![i] =
                               IF valid THEN outcome.kind ELSE "notcalled"]
               /\ openCalls' = [openCalls EXCEPT ![i] =
                                  IF valid THEN @ + 1 ELSE @]
               /\ st' = [st EXCEPT ![i] =
                           IF outcome.kind = "ret" THEN "ready" ELSE "failed"]
               /\ escaped' = (escaped \/ r.unwinding)
               /\ eng' = [eng EXCEPT ![i] =
                            IF status = 0 THEN "open" ELSE "rejected"]
               /\ last' = IF valid
                          THEN [Returned("open", i, outcome.kind, status, "")
                                  EXCEPT !.ctx = p, !.uri = uri.str]
                          ELSE Returned("open", i, "badutf8", status, "")
               /\ UNCHANGED call
               /\ UNCHANGED crashed
    /\ UNCHANGED <<mpv, schemes, rec, info, seekCalls, sizeCalls, closeCalls,
                   closeArg, given>>

\* The allocations a read, seek, size or close dispatch on instance i
\* dereferences: the dispatch record behind the cookie and the state block
\* behind the record's cookie.
dispatch_derefs_with_table(i) ==
    LET d == info[i].cookie
        c == rec[d].cookie
    IN  {rec[d].alloc, block[c].alloc, table[call[i].user_data].alloc}

dispatch_derefs(i) ==
    LET d == info[i].cookie
        c == rec[d].cookie
    IN  {rec[d].alloc, block[c].alloc}

\* What a dispatch on instance i touches that it must not: a released or never
\* written allocation, or an instance that failed to open or was closed.
Misuse(i) ==
    LET d == info[i].cookie
        c == rec[d].cookie
    IN  (IF \E a \in dispatch_derefs(i) : a # "live"
         THEN {"use_after_free"} ELSE {})
        \cup (IF ~block[c].init THEN {"uninit_read"} ELSE {})
        \cup (IF st[i] = "failed" THEN {"dispatch_on_failed"} ELSE {})
        \cup (IF st[i] = "closed" THEN {"dispatch_on_closed"} ELSE {})

\* ------------------------------------------------------------ read_wrapper
\* read_fn runs on the state block under catch_unwind; o is how it ends and t2
\* the state as it leaves it.  The buffer only passes through to read_fn.
Read(i, o, t2) ==
    /\ ~crashed
    /\ EngineMayCall(i, "read_fn")
    /\ LET d == info[i].cookie
           c == rec[d].cookie
           r == catch_unwind(o)
       IN
       /\ ub' = ub \cup Misuse(i)
       /\ block' = [block EXCEPT ![c].val = t2]
       /\ tval' = [tval EXCEPT ![i] = t2]
       /\ escaped' = (escaped \/ r.unwinding)
       /\ last' = [Returned("read", i, o.kind, read_ret(r), "")
                     EXCEPT !.cbval = o.val]
    /\ UNCHANGED <<mpv, table, schemes, rec, info, call, eng, st, openfn, seekCalls,
                   sizeCalls, closeCalls, closeArg, given, openCalls, crashed>>

\* ------------------------------------------------------------ seek_wrapper
\* Unsupported when the record holds no seek_fn; otherwise seek_fn runs on the
\* state block under catch_unwind.  The offset only passes through to seek_fn.
Seek(i, o, t2) ==
    /\ ~crashed
    /\ EngineMayCall(i, "seek_fn")
    /\ LET d == info[i].cookie
           c == rec[d].cookie
           f == rec[d].seek_fn
           r == catch_unwind(o)
       IN
       IF f = 0
       THEN /\ last' = Returned("seek", i, "absent", seek_none_ret, "")
            /\ ub' = ub \cup (Misuse(i) \ {"uninit_read"})
            /\ UNCHANGED <<block, tval, seekCalls, escaped>>
       ELSE /\ seekCalls[f] < MaxCalls
            /\ seekCalls' = [seekCalls EXCEPT ![f] = @ + 1]
            /\ ub' = ub \cup Misuse(i)
            /\ block' = [block EXCEPT ![c].val = t2]
            /\ tval' = [tval EXCEPT ![i] = t2]
            /\ escaped' = (escaped \/ r.unwinding)
            /\ last' = [Returned("seek", i, o.kind, seek_ret(r), "")
                          EXCEPT !.cbval = o.val]
    /\ UNCHANGED <<mpv, table, schemes, rec, info, call, eng, st, openfn, sizeCalls,
                   closeCalls, closeArg, given, openCalls, crashed>>

\* ------------------------------------------------------------ size_wrapper
Size(i, o, t2) ==
    /\ ~crashed
    /\ EngineMayCall(i, "size_fn")
    /\ LET d == info[i].cookie
           c == rec[d].cookie
           f == rec[d].size_fn
           r == catch_unwind(o)
       IN
       IF f = 0
       THEN /\ last' = Returned("size", i, "absent", size_none_ret, "")
            /\ ub' = ub \cup (Misuse(i) \ {"uninit_read"})
            /\ UNCHANGED <<block, tval, sizeCalls, escaped>>
       ELSE /\ sizeCalls[f] < MaxCalls
            /\ sizeCalls' = [sizeCalls EXCEPT ![f] = @ + 1]
            /\ ub' = ub \cup Misuse(i)
            /\ block' = [block EXCEPT ![c].val = t2]
            /\ tval' = [tval EXCEPT ![i] = t2]
            /\ escaped' = (escaped \/ r.unwinding)
            /\ last' = [Returned("size", i, o.kind, size_ret(r), "")
                          EXCEPT !.cbval = o.val]
    /\ UNCHANGED <<mpv, table, schemes, rec, info, call, eng, st, openfn, seekCalls,
                   closeCalls, closeArg, given, openCalls, crashed>>

\* ----------------------------------------------------------- close_wrapper
\* The record is taken back into a Box; close_fn is given the state block as
\* a Box<T> under catch_unwind, and the Box<T> is dropped when close_fn ends,
\* by return or by unwinding; the record's Box is dropped when the wrapper
\* returns.  o is how close_fn ends.
Close(i, o) ==
    /\ ~crashed
    /\ EngineMayCall(i, "close_fn")
    /\ LET d == info[i].cookie
           c == rec[d].cookie
           r == catch_unwind(o)
       IN
       /\ ub' = ub \cup Misuse(i)
       /\ closeCalls' = [closeCalls EXCEPT ![i] = @ + 1]
       /\ closeArg' = [closeArg EXCEPT ![i] = block[c].val]
       /\ block' = [block EXCEPT ![c] = drop_box(block[c])]
       /\ rec' = [rec EXCEPT ![d] = drop_box(rec[d])]
       /\ escaped' = (escaped \/ r.unwinding)
       /\ last' = Returned("close", i, o.kind, 0, "")
    /\ eng' = [eng EXCEPT ![i] = "closed"]
    /\ st' = [st EXCEPT ![i] = "closed"]
    /\ UNCHANGED <<mpv, table, schemes, info, call, openfn, tval, seekCalls,
                   sizeCalls, given, openCalls, crashed>>

\* ------------------------------------------------------------------ Next
OpenOutcomes == {Ret(t) : t \in TVals} \cup {Panic}
RetOutcomes == {Ret(v) : v \in RetVals} \cup {Panic}
CloseOutcomes == {Ret(0), Panic}
DerefOutcomes == {"live", "stale", "abort"}

Next ==
    \/ \E p \in MainProtos, name \in SchemeNames, u \in InitialContext, seek \in BOOLEAN,
          size \in BOOLEAN : New(p, name, u, seek, size)
    \/ \E p \in Protos : Register(p)
    \/ \E p \in Protos : Drop(p)
    \/ \E i \in Insts, reg \in schemes, path \in PathSet, how \in DerefOutcomes :
          OpenBegin(i, reg, path, how)
    \/ \E i \in Insts, o \in OpenOutcomes, u2 \in UVals, how \in DerefOutcomes :
          OpenEnd(i, o, u2, how)
    \/ \E i \in Insts, o \in RetOutcomes, t2 \in TVals : Read(i, o, t2)
    \/ \E i \in Insts, o \in RetOutcomes, t2 \in TVals : Seek(i, o, t2)
    \/ \E i \in Insts, o \in RetOutcomes, t2 \in TVals : Size(i, o, t2)
    \/ \E i \in Insts, o \in CloseOutcomes : Close(i, o)

Spec == Init /\ [][Next]_vars

\* --------------------------------------------- Protocols and one scheme
\* Protocols are made with any name of NameSet, registered and dropped, and
\* the engine opens streams of the registered scheme.
NextReg ==
    \/ \E p \in Protos, name \in NameSet, u \in InitialContext, seek \in BOOLEAN,
          size \in BOOLEAN : New(p, name, u, seek, size)
    \/ \E p \in Protos : Register(p)
    \/ \E p \in Protos : Drop(p)
    \/ \E i \in Insts, reg \in schemes, path \in PathSet, how \in DerefOutcomes :
          OpenBegin(i, reg, path, how)
    \/ \E i \in Insts, o \in OpenOutcomes, u2 \in UVals, how \in DerefOutcomes :
          OpenEnd(i, o, u2, how)

SpecReg == Init /\ [][NextReg]_vars

\* ------------------------------------------------------ the status bridge
\* mpv_err is applied to every status of Codes with a value of OkVals, beside
\* Protocol::new and register.  In last, id is the value supplied and cbval
\* the status.
MaxCode == 25
Codes == (0 - MaxCode)..MaxCode
OkVals == {0, 7}

ApplyMpvErr(ret, code) ==
    /\ ~crashed
    /\ LET r == mpv_err(ret, code) IN
       last' = [Returned("mpv_err", ret, "", r.val, r.err) EXCEPT !.cbval = code]
    /\ UNCHANGED <<mpv, table, schemes, rec, block, info, call, eng, st, openfn, tval,
                   seekCalls, sizeCalls, closeCalls, closeArg, given, openCalls,
                   escaped, crashed, ub>>

NextBridge ==
    \/ \E p \in Protos, name \in NameSet, u \in InitialContext, seek \in BOOLEAN,
          size \in BOOLEAN : New(p, name, u, seek, size)
    \/ \E p \in Protos : Register(p)
    \/ \E ret \in OkVals, code \in Codes : ApplyMpvErr(ret, code)

SpecBridge == Init /\ [][NextBridge]_vars

\* ------------------------------------------------- Mpv::with_initializer
\* The major version this crate was built for, and the versions the loaded
\* library may report: major in the high 16 bits, minor in the low.
MPV_CLIENT_API_MAJOR == 2
Versions == {65536 + 109, 131072, 131072 + 2, 196608}

\* How the initializer closure ends: Ok(()), an Err carrying a status (a
\* set_property or load_config that failed), or a panic.
InitOk == [kind |-> "ok", val |-> 0]
InitErr(c) == [kind |-> "err", val |-> c]
InitPanic == [kind |-> "panic", val |-> 0]
InitOutcomes == {InitOk, InitErr(0 - 5), InitErr(0 - 8), InitPanic}

\* What mpv_initialize may answer: success, no memory, invalid parameter.
InitializeStatuses == {0, 0 - 1, 0 - 4}

\* with_initializer as a function of what the library answers: ver from
\* mpv_client_api_version, created whether mpv_create gave a context, init how
\* the initializer ends and status what mpv_initialize returns.  ctx is what
\* has become of the context when the call is over, cb how it was left.
with_initializer(ver, created, init, status) ==
    IF MPV_CLIENT_API_MAJOR # ver \div 65536
    THEN [cb |-> "ret", err |-> "VersionMismatch", val |-> ver, ctx |-> "none"]
    ELSE IF ~created
    THEN [cb |-> "ret", err |-> "Null", val |-> 0, ctx |-> "none"]
    ELSE IF init.kind = "err"
    THEN [cb |-> "ret", err |-> "Raw", val |-> init.val, ctx |-> "created"]
    ELSE IF init.kind = "panic"
    THEN [cb |-> "panic", err |-> "", val |-> 0, ctx |-> "created"]
    ELSE LET r == mpv_err(0, status) IN
         IF r.err # ""
         THEN [cb |-> "ret", err |-> r.err, val |-> r.val, ctx |-> "destroyed"]
         ELSE [cb |-> "ret", err |-> "", val |-> 0, ctx |-> "initialized"]

\* One call of with_initializer; h is the context mpv_create returns if it
\* returns one.  In last, id is h when a context was created and 0 when not.
WithInitializer(h, ver, created, init, status) ==
    /\ ~crashed
    /\ mpv[h] = "none"
    /\ \A k \in Handles : k < h => mpv[k] # "none"
    /\ LET r == with_initializer(ver, created, init, status) IN
       /\ mpv' = [mpv EXCEPT ![h] = r.ctx]
       /\ last' = Returned("with_initializer", IF r.ctx = "none" THEN 0 ELSE h,
                           r.cb, r.val, r.err)
    /\ UNCHANGED <<table, schemes, rec, block, info, call, eng, st, openfn, tval,
                   seekCalls, sizeCalls, closeCalls, closeArg, given, openCalls,
                   escaped, crashed, ub>>

\* Drop for Mpv: mpv_terminate_destroy on the context the Mpv owns.
DropMpv(h) ==
    /\ ~crashed
    /\ mpv[h] = "initialized"
    /\ mpv' = [mpv EXCEPT ![h] = "destroyed"]
    /\ last' = Returned("drop_mpv", h, "", 0, "")
    /\ UNCHANGED <<table, schemes, rec, block, info, call, eng, st, openfn, tval,
                   seekCalls, sizeCalls, closeCalls, closeArg, given, openCalls,
                   escaped, crashed, ub>>

NextInit ==
    \/ \E h \in Handles, ver \in Versions, created \in BOOLEAN,
          init \in InitOutcomes, status \in InitializeStatuses :
          WithInitializer(h, ver, created, init, status)
    \/ \E h \in Handles : DropMpv(h)

SpecInit == Init /\ [][NextInit]_vars

\* ================================================================ claims
StateBlock(i) == block[rec[i].cookie]

HasNul(s) == \E k \in 1..Len(s) : s[k] = 0

\* C1: whatever an application callback does, return or panic, no panic ever
\* unwinds out of a trampoline into the engine: every trampoline returns.
C1_PanicsNeverReachEngine == ~escaped

C1_Witness ==
    /\ last.op = "close" /\ last.cb = "panic"
    /\ \E j \in Insts : openfn[j] = "panic"

\* C2: an instance moves Created -> Opening -> Ready or Failed, and Ready ->
\* Closed; the engine holds open only instances that are Ready with an
\* initialized state block, so no read, seek, size or close is dispatched on
\* a Failed or Closed instance and none reads an uninitialized state block.
C2_Consistent ==
    /\ ub \cap {"dispatch_on_failed", "dispatch_on_closed", "uninit_read"} = {}
    /\ \A i \in Insts :
         /\ eng[i] = "open" =>
              st[i] = "ready" /\ StateBlock(i).alloc = "live" /\ StateBlock(i).init
         /\ st[i] = "failed" => eng[i] = "rejected"
         /\ st[i] = "closed" => eng[i] = "closed"
    /\ last.op \in {"read", "seek", "size"} => st[last.id] = "ready"

C2_Transitions ==
    \A i \in Insts :
        <<st[i], st'[i]>> \in
            { <<"none", "none">>, <<"none", "opening">>, <<"opening", "opening">>,
              <<"opening", "ready">>, <<"opening", "failed">>, <<"ready", "ready">>,
              <<"ready", "closed">>, <<"failed", "failed">>, <<"closed", "closed">> }

C2_Lifecycle == []C2_Consistent /\ [][C2_Transitions]_vars

C2_Witness ==
    /\ st[1] = "failed" /\ st[2] = "closed"
    /\ last.op = "close"

\* C3: close_fn runs at most once per instance, only for an instance whose
\* open_fn returned normally, once per close dispatch, and it is given that
\* instance's own state value.
C3_CloseOnce ==
    \A i \in Insts :
        /\ closeCalls[i] <= 1
        /\ (closeCalls[i] = 1) <=> (eng[i] = "closed")
        /\ closeCalls[i] = 1 => openfn[i] = "ret" /\ closeArg[i] = tval[i]

C3_Witness ==
    /\ closeCalls[1] = 1 /\ closeCalls[2] = 1
    /\ closeArg[1] # closeArg[2]

\* C4: an open dispatch returns 0 exactly when open_fn returned normally, and
\* then the state block holds the value open_fn returned; when open_fn panics
\* it returns Generic and the state block stays uninitialized.
C4_OpenStatus ==
    last.op = "open" =>
        LET i == last.id IN
        /\ (last.val = 0) <=> (openfn[i] = "ret")
        /\ last.val = 0 => StateBlock(i).init /\ StateBlock(i).val = tval[i]
        /\ openfn[i] = "panic" => last.val = Generic /\ ~StateBlock(i).init

C4_Witness ==
    /\ last.op = "open" /\ last.id = 2 /\ last.val = 0
    /\ StateBlock(2).val = 1
    /\ openfn[1] = "panic"

\* C5: after an open dispatch whose open_fn panicked, the instance is not
\* open for the engine and neither its state block nor its dispatch record is
\* still allocated.
C5_FailedOpenReleases ==
    \A i \in Insts :
        (openfn[i] = "panic" /\ st[i] = "failed") =>
            /\ eng[i] # "open"
            /\ rec[i].alloc # "live"
            /\ StateBlock(i).alloc # "live"

\* C6: a read dispatch whose read_fn panicked returns -1, and the instance is
\* still Ready afterwards.
C6_ReadPanic ==
    (last.op = "read" /\ last.cb = "panic") =>
        /\ last.val = -1
        /\ st[last.id] = "ready" /\ eng[last.id] = "open"
        /\ rec[last.id].alloc = "live"
        /\ StateBlock(last.id).alloc = "live" /\ StateBlock(last.id).init

C6_Witness == last.op = "read" /\ last.cb = "panic"

\* C7: for a registration made without seek_fn, every seek dispatch on its
\* instances returns Unsupported, runs no application code and changes no
\* instance state, and its seek_fn invocation count stays 0; likewise for
\* size_fn and size dispatches.
C7_Counts ==
    \A p \in Protos :
        /\ (table[p].alloc = "live" /\ table[p].seek_fn = 0) => seekCalls[p] = 0
        /\ (table[p].alloc = "live" /\ table[p].size_fn = 0) => sizeCalls[p] = 0

C7_AbsentStep ==
    \A i \in Insts :
        /\ (last'.op = "seek" /\ last'.id = i /\ table[rec[i].open_fn].seek_fn = 0) =>
              /\ last'.val = Unsupported /\ last'.cb = "absent"
              /\ UNCHANGED <<seekCalls, sizeCalls, closeCalls, block, tval, rec, table, st>>
        /\ (last'.op = "size" /\ last'.id = i /\ table[rec[i].open_fn].size_fn = 0) =>
              /\ last'.val = Unsupported /\ last'.cb = "absent"
              /\ UNCHANGED <<seekCalls, sizeCalls, closeCalls, block, tval, rec, table, st>>

C7_AbsentUnsupported == []C7_Counts /\ [][C7_AbsentStep]_vars

C7_Witness ==
    /\ last.op = "seek" /\ last.cb = "absent"
    /\ table[rec[last.id].open_fn].size_fn # 0

\* C8: a panic of seek_fn makes the seek dispatch return Generic; a panic of
\* size_fn makes the size dispatch return Unsupported, not Generic.
C8_PanicStatus ==
    /\ (last.op = "seek" /\ last.cb = "panic") => last.val = Generic
    /\ (last.op = "size" /\ last.cb = "panic") =>
          last.val = Unsupported /\ last.val # Generic

C8_Witness ==
    /\ last.op = "size" /\ last.cb = "panic"
    /\ seekCalls[rec[last.id].open_fn] > 0

\* C9: a close dispatch gives the initialized state value to close_fn, and
\* when it has returned the dispatch record and the state block have each
\* been released exactly once, whether close_fn returned or panicked.
C9_CloseReleases ==
    /\ \A i \in Insts :
         /\ rec[i].frees <= 1 /\ block[i].frees <= 1
         /\ st[i] = "closed" =>
              /\ closeArg[i] = tval[i]
              /\ rec[i].alloc = "freed" /\ rec[i].frees = 1
              /\ StateBlock(i).alloc = "freed" /\ StateBlock(i).frees = 1
    /\ "use_after_free" \notin ub

C9_Witness ==
    /\ st[1] = "closed" /\ st[2] = "closed"
    /\ last.op = "close" /\ last.cb = "panic"

\* C10: register on a scheme name with an interior NUL returns InvalidName and
\* leaves the engine's registered schemes as they were.
C10_Step ==
    \A p \in Protos :
        (last'.op = "register" /\ last'.id = p /\ HasNul(table[p].name)) =>
            /\ last'.err = "InvalidName"
            /\ schemes' = schemes

C10_NulNameRejected == [][C10_Step]_vars

C10_Witness ==
    /\ last.op = "register" /\ last.err = "InvalidName"
    /\ schemes # {}

\* The scheme of a locator: the bytes before "://".
RECURSIVE SchemeOf(_)
SchemeOf(s) ==
    IF Len(s) < Len(SchemeSep) \/ SubSeq(s, 1, Len(SchemeSep)) = SchemeSep
    THEN <<>>
    ELSE <<Head(s)>> \o SchemeOf(Tail(s))

\* C11: register on a scheme the engine already has returns the engine's
\* DuplicateScheme status as an error and registers nothing; the registration
\* that was there stays, alone for its scheme, and every open dispatch for the
\* scheme is given that registration's table, callbacks and context.
C11_Step ==
    /\ schemes \subseteq schemes'
    /\ \A p \in Protos :
          (/\ last'.op = "register" /\ last'.id = p
           /\ \E r \in schemes : r.protocol = table[p].name) =>
              /\ last'.err = "Raw" /\ last'.val = DuplicateScheme
              /\ schemes' = schemes

C11_Routing ==
    /\ \A r1, r2 \in schemes : r1.protocol = r2.protocol => r1 = r2
    /\ \A i \in Insts :
          st[i] = "opening" =>
              \E r \in schemes :
                  /\ r.protocol = SchemeOf(call[i].uri)
                  /\ call[i].user_data = r.user_data
                  /\ rec[info[i].cookie].open_fn = r.user_data
                  /\ rec[info[i].cookie].read_fn = r.user_data
                  /\ rec[info[i].cookie].close_fn = r.user_data
    /\ (last.op = "open" /\ last.cb \in {"ret", "panic"}) =>
          \E r \in schemes : r.protocol = SchemeOf(last.uri) /\ last.ctx = r.user_data

C11_DuplicateRefused == []C11_Routing /\ [][C11_Step]_vars

C11_Witness ==
    /\ last.op = "register" /\ last.id = 2 /\ last.val = DuplicateScheme
    /\ schemes = {[protocol |-> <<97>>, user_data |-> 1]}
    /\ st[1] = "ready" /\ rec[1].open_fn = 1
    /\ st[2] = "opening" /\ call[2].user_data = 1

\* C12: no open dispatch reads a callback table that has been released, the
\* Protocol being dropped while the engine lives or not.
C12_TableOutlivesDispatch == "table_after_free" \notin ub

\* The instances an open dispatch has made and no close has taken back.
Made(i) == st[i] \in {"opening", "ready"}

\* C13: open dispatches of one scheme for different locators, interleaved in
\* any way, give instances with different cookies, dispatch records and state
\* blocks, each block holding what its own open_fn returned; and an open,
\* read, seek or size of one instance changes nothing of another.
C13_Distinct ==
    /\ \A i, j \in Insts :
          (i # j /\ Made(i) /\ Made(j)) =>
              /\ info[i].cookie # info[j].cookie
              /\ rec[info[i].cookie].cookie # rec[info[j].cookie].cookie
              /\ rec[info[i].cookie].alloc = "live"
              /\ block[rec[info[i].cookie].cookie].alloc = "live"
    /\ \A i \in Insts :
          (st[i] = "ready" /\ openfn[i] = "ret") =>
              /\ block[rec[info[i].cookie].cookie].init
              /\ block[rec[info[i].cookie].cookie].val = tval[i]

C13_Step ==
    \A i, j \in Insts :
        (/\ i # j /\ Made(j)
         /\ last'.op \in {"open_enter", "open", "read", "seek", "size"}
         /\ last'.id = i) =>
            /\ info'[j] = info[j]
            /\ rec'[info[j].cookie] = rec[info[j].cookie]
            /\ block'[rec[info[j].cookie].cookie] = block[rec[info[j].cookie].cookie]
            /\ tval'[j] = tval[j]

C13_InstancesIndependent == []C13_Distinct /\ [][C13_Step]_vars

C13_Witness ==
    /\ st[1] = "ready" /\ st[2] = "ready"
    /\ call[1].user_data = call[2].user_data
    /\ call[1].uri # call[2].uri
    /\ last.op = "read" /\ last.id = 1
    /\ block[rec[1].cookie].val = 1 /\ block[rec[2].cookie].val = 0
    /\ rec[1].cookie # rec[2].cookie

\* The open dispatches of registration p that are inside the closure, where
\* open_fn holds the exclusive reference to p's context.
Holders(p) ==
    { i \in Insts : /\ st[i] = "opening"
                    /\ call[i].user_data = p
                    /\ mpv_cstr_to_str(call[i].uri).ok }

\* C14: of the open dispatches of one registration that run at the same time,
\* at most one at any moment holds mutable access to the shared context.
C14_OneContextHolder == \A p \in Protos : Cardinality(Holders(p)) <= 1

\* C15: when read_fn, seek_fn or size_fn returns a value, the trampoline
\* returns that very value; another value is returned only when the callback
\* panicked or is absent (and read_fn is never absent).
C15_PassThrough ==
    last.op \in {"read", "seek", "size"} =>
        /\ last.cb \in {"ret", "panic", "absent"}
        /\ last.cb = "ret" => last.val = last.cbval
        /\ last.cb = "absent" => last.op # "read"

C15_Witness ==
    /\ last.op = "read" /\ last.cb = "ret"
    /\ last.cbval = Generic /\ last.val = Generic

\* C16: which optional callbacks exist is fixed when the Protocol is made: the
\* callback table has a seek_fn (size_fn) exactly if Protocol::new was given
\* one, in every state, and so has the record of every instance of that
\* registration, from its open dispatch to its close.
C16_Flags ==
    /\ \A p \in Protos :
          table[p].alloc = "live" =>
              /\ given[p].made
              /\ (table[p].seek_fn # 0) = given[p].seek
              /\ (table[p].size_fn # 0) = given[p].size
    /\ \A i \in Insts :
          Made(i) =>
              /\ (rec[info[i].cookie].seek_fn # 0) = given[call[i].user_data].seek
              /\ (rec[info[i].cookie].size_fn # 0) = given[call[i].user_data].size

C16_Step ==
    /\ \A p \in Protos : given[p].made => given'[p] = given[p]
    /\ \A i \in Insts :
          (Made(i) /\ st'[i] \in {"opening", "ready"}) =>
              /\ call'[i].user_data = call[i].user_data
              /\ rec'[info'[i].cookie].seek_fn = rec[info[i].cookie].seek_fn
              /\ rec'[info'[i].cookie].size_fn = rec[info[i].cookie].size_fn

C16_FlagsFixed == []C16_Flags /\ [][C16_Step]_vars

C16_Witness ==
    /\ st[1] = "ready" /\ given[1].seek /\ ~given[1].size
    /\ table[1].alloc = "live"
    /\ rec[1].seek_fn # 0 /\ rec[1].size_fn = 0
    /\ last.op = "size" /\ last.cb = "absent" /\ seekCalls[1] = 1

\* C17: a close dispatch on one instance changes that instance's record and
\* state block only: the callback tables and their contexts stay as they
\* were, so do the cookie, record, state block and state of every other
\* instance, and another instance that was ready is still ready, its record
\* and block allocated and the engine free to call it.
C17_Step ==
    \A i \in Insts :
        (last'.op = "close" /\ last'.id = i) =>
            /\ table' = table
            /\ schemes' = schemes
            /\ \A j \in Insts :
                  (j # i /\ st[j] # "none") =>
                      /\ info'[j] = info[j]
                      /\ rec'[info[j].cookie] = rec[info[j].cookie]
                      /\ block'[rec[info[j].cookie].cookie] =
                            block[rec[info[j].cookie].cookie]
                      /\ st'[j] = st[j] /\ eng'[j] = eng[j] /\ tval'[j] = tval[j]
                      /\ st[j] = "ready" =>
                            /\ rec'[info[j].cookie].alloc = "live"
                            /\ block'[rec[info[j].cookie].cookie].alloc = "live"
                            /\ eng'[j] = "open"

C17_CloseTouchesOwn == [][C17_Step]_vars

C17_Witness ==
    /\ last.op = "close" /\ last.id = 1
    /\ rec[1].alloc = "freed" /\ block[rec[1].cookie].alloc = "freed"
    /\ st[2] = "ready" /\ eng[2] = "open"
    /\ rec[2].alloc = "live" /\ block[rec[2].cookie].alloc = "live"
    /\ table[1].alloc = "live"

\* C18: an open dispatch whose locator is valid text calls open_fn exactly
\* once, with the context of the registration whose table the engine passed
\* and with the locator as the engine gave it, scheme and separator included.
C18_OpenCalledOnce ==
    /\ \A i \in Insts :
          /\ st[i] \in {"none", "opening"} => openCalls[i] = 0
          /\ (st[i] \in {"ready", "failed", "closed"}
                /\ IsUtf8(CStrBytes(call[i].uri))) => openCalls[i] = 1
    /\ (last.op = "open" /\ last.cb \in {"ret", "panic"}) =>
          /\ openCalls[last.id] = 1
          /\ last.ctx = call[last.id].user_data
          /\ last.ctx = rec[info[last.id].cookie].open_fn
          /\ last.uri \o <<0>> = call[last.id].uri
          /\ \E r \in schemes, path \in PathSet :
                /\ r.user_data = last.ctx
                /\ last.uri = r.protocol \o SchemeSep \o path

C18_Witness ==
    /\ last.op = "open" /\ last.id = 2 /\ last.cb = "ret"
    /\ last.uri = <<97, 58, 47, 47, 121>>
    /\ last.ctx = 1 /\ openCalls[2] = 1 /\ openCalls[1] = 1

\* C19: the status bridge makes status 0 Ok with the value supplied and every
\* other status, negative or positive, an error carrying that status; and
\* register, once the name is accepted, returns Ok exactly when the engine's
\* registration call returned 0, and otherwise the engine's status.
C19_StatusBridge ==
    /\ last.op = "mpv_err" =>
          IF last.cbval = 0
          THEN last.err = "" /\ last.val = last.id
          ELSE last.err = "Raw" /\ last.val = last.cbval
    /\ (last.op = "register" /\ last.err # "InvalidName") =>
          IF last.cbval = 0
          THEN last.err = ""
          ELSE last.err = "Raw" /\ last.val = last.cbval

C19_Witness ==
    /\ last.op = "mpv_err" /\ last.cbval = 3 /\ last.id = 7
    /\ last.err = "Raw" /\ last.val = 3
    /\ schemes # {}

\* C20: from the moment an open dispatch reaches the call of open_fn, before
\* open_fn has run, and whether open_fn then returns or panics, the engine's
\* info record holds a cookie no other instance has and all four entry
\* points, seek and size also when the registration has no seek_fn or size_fn.
C20_InfoFilled ==
    /\ \A i \in Insts :
          IF st[i] = "none" THEN info[i] = NoInfo
          ELSE /\ info[i].cookie \in Insts
               /\ rec[info[i].cookie].alloc # "none"
               /\ info[i].read_fn /\ info[i].close_fn
               /\ info[i].seek_fn /\ info[i].size_fn
    /\ \A i, j \in Insts :
          (i # j /\ st[i] # "none" /\ st[j] # "none") =>
              info[i].cookie # info[j].cookie

C20_Witness ==
    /\ st[1] = "failed" /\ openfn[1] = "panic"
    /\ ~given[1].seek /\ ~given[1].size
    /\ info[1].seek_fn /\ info[1].size_fn /\ info[1].cookie = 1
    /\ st[2] = "opening" /\ openCalls[2] = 0
    /\ info[2].seek_fn /\ info[2].size_fn /\ info[2].cookie = 2

\* C21: an open dispatch whose locator is not UTF-8 returns Generic, never
\* calls open_fn, leaves every callback table and context as it was and
\* leaves the instance failed and closed to the engine.
C21_Step ==
    \A i \in Insts :
        (/\ last'.op = "open" /\ last'.id = i
         /\ st[i] = "opening"
         /\ ~IsUtf8(CStrBytes(call[i].uri))) =>
            /\ last'.val = Generic
            /\ openCalls'[i] = 0 /\ openfn'[i] = "notcalled"
            /\ table' = table
            /\ ub' = ub
            /\ ~escaped'
            /\ st'[i] = "failed" /\ eng'[i] = "rejected"

C21_BadLocatorRejected == [][C21_Step]_vars

C21_Witness ==
    /\ last.op = "open" /\ last.id = 2 /\ last.val = Generic
    /\ ~IsUtf8(CStrBytes(call[2].uri))
    /\ openCalls[2] = 0 /\ openfn[2] = "notcalled"
    /\ openfn[1] = "ret" /\ table[1].user_data = 1

\* C22: a read, seek, size or close dispatch dereferences the instance's own
\* record and state block only, so no dispatch ever touches released memory,
\* and one made after the Protocol was dropped, on an instance opened before,
\* runs as any other and leaves the released table as it is.
C22_NoFreedAccess == "use_after_free" \notin ub

C22_Step ==
    \A i \in Insts :
        (/\ last'.op \in {"read", "seek", "size", "close"} /\ last'.id = i
         /\ table[call[i].user_data].alloc = "freed") =>
            /\ ub' = ub
            /\ table' = table
            /\ last'.op # "close" => st'[i] = "ready" /\ eng'[i] = "open"

C22_DispatchAfterDrop == []C22_NoFreedAccess /\ [][C22_Step]_vars

C22_Witness ==
    /\ table[1].alloc = "freed" /\ ub = {}
    /\ st[1] = "ready" /\ block[rec[1].cookie].alloc = "live"
    /\ st[2] = "closed" /\ last.op = "close" /\ last.id = 2
    /\ tval[1] = 1 /\ block[rec[1].cookie].val = 1

\* C23: when with_initializer returns Err, whatever the reason, no engine
\* context made by that call is left alive: none was made or it is destroyed.
C23_NoContextLeftOnErr ==
    (last.op = "with_initializer" /\ last.cb = "ret" /\ last.err # "") =>
        (last.id = 0 \/ mpv[last.id] = "destroyed")

====
